---------------------------- MODULE Spec2Model ----------------------------
(***************************************************************************)
(* Model of the medwiseai donate/dispose decision table                    *)
(* (server route getDonateDisposeRecommendation, client form               *)
(* DonateDispose.getRecommendation), of AIService (callWithRetry, the      *)
(* five operations built on it, the medicine-details cache), of the chat   *)
(* and OTC routes, and of the client's ranking of donation centers.        *)
(*                                                                         *)
(* Each component has its own specification; the variables of the other    *)
(* components stay at their idle values.                                   *)
(*                                                                         *)
(* Time is counted in ticks since the epoch, UTC.  A calendar day has      *)
(* TicksPerDay ticks.  A host's zone offset tz is in ticks, local = UTC+tz.*)
(***************************************************************************)
EXTENDS Integers, Sequences, FiniteSets, TLC

VARIABLES
    now,          \* the instant new Date() / Date.now() reads, UTC ticks
    tz,           \* zone offset of the evaluating host, ticks
    input,        \* the medicine attributes submitted (request body / form state)
    serverResp,   \* response of getDonateDisposeRecommendation, or NoResp
    lookups,      \* number of geocoding requests fetchNearbyPlaces has issued
    clientRec,    \* the client's `recommendation` state, or NoRec
    clientRan,    \* getRecommendation was clicked
    retries,      \* callWithRetry: parameter retries
    initialDelay, \* callWithRetry: parameter initialDelay
    rpc,          \* callWithRetry: position ("idle","loop","awaitFn","sleep","returned","thrown")
    i,            \* callWithRetry: loop counter
    delay,        \* callWithRetry: current delay
    lastError,    \* callWithRetry: lastError
    fnLog,        \* outcomes of the invocations of fn, in order
    sleeps,       \* the delays slept, in order
    inFlight,     \* invocations of fn started and not yet settled
    outcome,      \* what callWithRetry settled with
    apiKey,       \* process.env.GEMINI_API_KEY is set
    aiOp,         \* the AIService operation running on top of callWithRetry
    aiArg,        \* its string argument (the medicine name of getMedicineDetails)
    aiSaw,        \* how its awaited remote call ended, "" before that
    aiResult,     \* what that operation resolved with, or NoResult
    clock,        \* Date.now() of the server process, milliseconds
    ticks,        \* number of times the clock has advanced
    medicineCache,\* AIService.medicineCache: normalized name -> CacheEntry
    calls,        \* the getMedicineDetails calls made so far, in start order
    chatSessions, \* the keys of the chatSessions Map
    sessions,     \* every ChatSession object created so far, by id
    nextSession,  \* the id the next startChatSession generates
    sweepDue,     \* when the cleanup interval fires next
    sweepLog,     \* the cleanup runs so far
    reqs,         \* the requests the chat and OTC routes have received
    responseCenters,      \* data.data.centers of the donation-centers response
    geocodedCenter, \* whether the response carries data.data.geocodedCenter
    donationCenters, \* the client's donationCenters state
    rankRan,      \* which client search has handled the response
    alerted,      \* whether the "none within 15km" alert was shown
    reqQuery,     \* req.query of the donation-centers endpoint
    centersResp   \* response of the donation-centers endpoint, or NoCentersResp

classifyVars == <<now, tz, input, serverResp, lookups, clientRec, clientRan>>
retryVars == <<retries, initialDelay, rpc, i, delay, lastError, fnLog, sleeps, inFlight, outcome>>
aiVars == <<apiKey, aiOp, aiArg, aiSaw, aiResult>>
cacheVars == <<clock, ticks, medicineCache, calls>>
chatVars == <<chatSessions, sessions, nextSession, sweepDue, sweepLog, reqs>>
rankVars == <<responseCenters, geocodedCenter, donationCenters, rankRan, alerted>>
endpointVars == <<reqQuery, centersResp>>
vars == <<now, tz, input, serverResp, lookups, clientRec, clientRan,
          retries, initialDelay, rpc, i, delay, lastError, fnLog, sleeps, inFlight, outcome,
          apiKey, aiOp, aiArg, aiSaw, aiResult, clock, ticks, medicineCache,
          calls, chatSessions, sessions, nextSession, sweepDue, sweepLog,
          reqs, responseCenters, geocodedCenter, donationCenters, rankRan, alerted,
          reqQuery, centersResp>>
nonRetryVars == <<classifyVars, aiVars, cacheVars, chatVars, rankVars, endpointVars>>
nonClassifyVars == <<retryVars, aiVars, cacheVars, chatVars, rankVars, endpointVars>>
nonAIVars == <<classifyVars, retryVars, chatVars, rankVars, endpointVars>>
nonCacheVars == <<classifyVars, retryVars, aiVars, chatVars, rankVars, endpointVars>>
nonChatVars == <<classifyVars, retryVars, aiVars, rankVars,
                endpointVars>>
nonRankVars == <<classifyVars, retryVars, aiVars, cacheVars, chatVars, endpointVars>>
nonEndpointVars == <<classifyVars, retryVars, aiVars, cacheVars, chatVars, rankVars>>

---------------------------------------------------------------------------
(* Bounds *)

TicksPerDay == 4
MaxTz == 2
MaxDay == 3
MaxRetries == 3
MaxCenters == 1
MaxStrLen == 2
MaxTicks == 2
MaxCalls == 2
MaxSessions == 2
MaxReqs == 2
MaxFacilities == 3

---------------------------------------------------------------------------
(* Dates *)

\* A string handed to new Date(): absent (undefined, null or ''), a
\* YYYY-MM-DD calendar date, or a non-empty string Date cannot parse.
ExpiryValues ==
    {[kind |-> "absent", day |-> 0], [kind |-> "invalid", day |-> 0]}
    \cup {[kind |-> "date", day |-> d] : d \in 0..MaxDay}

\* new Date(s): a date-only string is UTC midnight of that day; an
\* unparseable one is an Invalid Date (NaN time value).
NewDate(s) ==
    IF s.kind = "date" THEN [valid |-> TRUE, time |-> s.day * TicksPerDay]
    ELSE [valid |-> FALSE, time |-> 0]

\* new Date() at instant t.
DateNow(t) == [valid |-> TRUE, time |-> t]

\* The calendar day of instant t on a host of zone offset z.
LocalDay(t, z) == (t + z) \div TicksPerDay

\* d.setHours(0, 0, 0, 0) on a host of zone offset z: local midnight.
setHours0(d, z) == [valid |-> d.valid, time |-> LocalDay(d.time, z) * TicksPerDay - z]

\* a < b on Date objects: compares time values, false when either is NaN.
DateLess(a, b) == a.valid /\ b.valid /\ a.time < b.time

\* JavaScript truthiness of a string field.
Truthy(s) == s.kind # "absent"

---------------------------------------------------------------------------
(* Inputs *)

Conditions == {"unopened", "opened", "partial"}
MedicineTypes == {"otc", "prescription", "controlled", "not-sure"}
\* "absent": the field is missing; "other": a value outside the enumeration
ConditionValues == Conditions \cup {"absent", "other"}
MedicineTypeValues == MedicineTypes \cup {"absent", "other"}

NoInfo ==
    [hasInfo |-> FALSE, name |-> FALSE, expiryDate |-> [kind |-> "absent", day |-> 0],
     condition |-> "absent", medicineType |-> "absent",
     expiryNotAvailable |-> FALSE, location |-> FALSE]

Inputs ==
    {NoInfo} \cup
    [hasInfo : {TRUE}, name : BOOLEAN, expiryDate : ExpiryValues,
     condition : ConditionValues, medicineType : MedicineTypeValues,
     expiryNotAvailable : BOOLEAN, location : BOOLEAN]

NoResp == [status |-> 0, recommendation |-> "", nearbyCenters |-> <<>>, source |-> ""]
NoRec == [recommendation |-> ""]

---------------------------------------------------------------------------
(* Server: getDonateDisposeRecommendation *)

\* Variant with no example centers to fall back on.
NoMockCenters == <<>>

MOCK_CENTERS == <<"City General Hospital", "Community Care Pharmacy">>

\* lines 174-182
isExpired(medicineInfo, t, z) ==
    IF Truthy(medicineInfo.expiryDate)
    THEN DateLess(NewDate(medicineInfo.expiryDate), setHours0(DateNow(t), z))
    ELSE FALSE

isUnsure(medicineInfo) == medicineInfo.medicineType = "not-sure"
isControlled(medicineInfo) == medicineInfo.medicineType = "controlled"

\* Variants of the chain with a rule misplaced or misread.
ServerRecommendationExpiryFirst(medicineInfo, t, z) ==
    IF isExpired(medicineInfo, t, z) THEN "Dispose"
    ELSE IF medicineInfo.expiryNotAvailable THEN "Consult"
    ELSE IF isControlled(medicineInfo) THEN "Dispose"
    ELSE IF isUnsure(medicineInfo) THEN "Consult"
    ELSE IF medicineInfo.condition # "unopened" THEN "Dispose"
    ELSE "Donate"

ServerRecommendationTypeFirst(medicineInfo, t, z) ==
    IF medicineInfo.expiryNotAvailable THEN "Consult"
    ELSE IF isControlled(medicineInfo) THEN "Dispose"
    ELSE IF isUnsure(medicineInfo) THEN "Consult"
    ELSE IF isExpired(medicineInfo, t, z) THEN "Dispose"
    ELSE IF medicineInfo.condition # "unopened" THEN "Dispose"
    ELSE "Donate"

ServerRecommendationOpenedOnly(medicineInfo, t, z) ==
    IF medicineInfo.expiryNotAvailable THEN "Consult"
    ELSE IF isExpired(medicineInfo, t, z) THEN "Dispose"
    ELSE IF isControlled(medicineInfo) THEN "Dispose"
    ELSE IF isUnsure(medicineInfo) THEN "Consult"
    ELSE IF medicineInfo.condition = "opened" THEN "Dispose"
    ELSE "Donate"

\* lines 191-272: the if / else-if chain
ServerRecommendation(medicineInfo, t, z) ==
    IF medicineInfo.expiryNotAvailable THEN "Consult"
    ELSE IF isExpired(medicineInfo, t, z) THEN "Dispose"
    ELSE IF isControlled(medicineInfo) THEN "Dispose"
    ELSE IF isUnsure(medicineInfo) THEN "Consult"
    ELSE IF medicineInfo.condition # "unopened" THEN "Dispose"
    ELSE "Donate"

\* The lists of centers fetchNearbyPlaces can return for a location query.
FoundCenters(n) == [k \in 1..n |-> "osm"]

getDonateDisposeRecommendation ==
    /\ serverResp = NoResp
    /\ IF ~input.hasInfo
       THEN /\ serverResp' = [NoResp EXCEPT !.status = 400]
            /\ UNCHANGED lookups
       ELSE LET rec == ServerRecommendation(input, now, tz) IN
            IF rec # "Donate"
            THEN /\ serverResp' = [NoResp EXCEPT !.status = 200, !.recommendation = rec]
                 /\ UNCHANGED lookups
            ELSE \E n \in 0..MaxCenters :
                    \* fetchNearbyPlaces(location): no request without a location
                    /\ (~input.location => n = 0)
                    /\ lookups' = IF input.location THEN lookups + 1 ELSE lookups
                    /\ LET centers == FoundCenters(n)
                           usedMock == Len(centers) = 0
                       IN serverResp' =
                            [status |-> 200, recommendation |-> rec,
                             nearbyCenters |-> IF usedMock THEN MOCK_CENTERS ELSE centers,
                             source |-> IF usedMock THEN "Mock Data" ELSE "OpenStreetMap"]
    /\ UNCHANGED <<now, tz, input, clientRec, clientRan>>
    /\ UNCHANGED nonClassifyVars

---------------------------------------------------------------------------
(* Client: DonateDispose.getRecommendation *)

\* The states the assessment form can hold: typed radio groups, a date
\* input, and the "not available" checkbox, which clears the date.
FormState(m) ==
    /\ m.hasInfo
    /\ m.condition \in Conditions
    /\ m.medicineType \in MedicineTypes
    /\ m.expiryDate.kind \in {"absent", "date"}
    /\ (m.expiryNotAvailable => m.expiryDate.kind = "absent")

\* Variant of the chain without the controlled-substance rule.
ClientRecommendationNoControlled(medicineInfo, expiryNotAvailable, t) ==
    IF expiryNotAvailable THEN "consult"
    ELSE LET today == DateNow(t)
             expiry == NewDate(medicineInfo.expiryDate)
             expired == DateLess(expiry, today)
         IN IF expired THEN "dispose"
            ELSE IF medicineInfo.medicineType = "not-sure" THEN "consult"
            ELSE IF medicineInfo.condition # "unopened" THEN "dispose"
            ELSE "donate"

\* lines 804-883
ClientRecommendation(medicineInfo, expiryNotAvailable, t) ==
    IF expiryNotAvailable THEN "consult"
    ELSE LET today == DateNow(t)
             expiry == NewDate(medicineInfo.expiryDate)
             expired == DateLess(expiry, today)
         IN IF expired THEN "dispose"
            ELSE IF medicineInfo.medicineType = "controlled" THEN "dispose"
            ELSE IF medicineInfo.medicineType = "not-sure" THEN "consult"
            ELSE IF medicineInfo.condition # "unopened" THEN "dispose"
            ELSE "donate"

getRecommendation ==
    /\ ~clientRan
    /\ FormState(input)
    /\ clientRan' = TRUE
    /\ IF ~input.name \/ (~Truthy(input.expiryDate) /\ ~input.expiryNotAvailable)
       THEN UNCHANGED clientRec
       ELSE clientRec' = [recommendation |->
                ClientRecommendation(input, input.expiryNotAvailable, now)]
    /\ UNCHANGED <<now, tz, input, serverResp, lookups>>
    /\ UNCHANGED nonClassifyVars

---------------------------------------------------------------------------
(* AIService.callWithRetry *)

DefaultRetries == 3
DefaultInitialDelay == 2000
InitialDelays == {1000, DefaultInitialDelay}
Values == {"v1", "v2"}

\* What fn can reject with: the fields the handler inspects.
Errors ==
    {[status |-> 429, msg429 |-> FALSE, msgTooMany |-> FALSE, rateReason |-> FALSE],
     [status |-> 0,   msg429 |-> TRUE,  msgTooMany |-> FALSE, rateReason |-> FALSE],
     [status |-> 0,   msg429 |-> FALSE, msgTooMany |-> TRUE,  rateReason |-> FALSE],
     [status |-> 0,   msg429 |-> FALSE, msgTooMany |-> FALSE, rateReason |-> TRUE],
     [status |-> 500, msg429 |-> FALSE, msgTooMany |-> FALSE, rateReason |-> FALSE],
     [status |-> 0,   msg429 |-> FALSE, msgTooMany |-> FALSE, rateReason |-> FALSE]}

NoError == [status |-> -1, msg429 |-> FALSE, msgTooMany |-> FALSE, rateReason |-> FALSE]
NoOutcome == [kind |-> "none", value |-> "", error |-> NoError]

\* lines 28-31
isRateLimit(error) ==
    \/ error.status = 429
    \/ error.msg429
    \/ error.msgTooMany
    \/ error.rateReason

\* line 21: the loop test, then line 23 starts fn, or line 43
LoopStep ==
    /\ rpc = "loop"
    /\ IF i < retries
       THEN /\ rpc' = "awaitFn"
            /\ inFlight' = inFlight + 1
            /\ UNCHANGED outcome
       ELSE /\ rpc' = "thrown"
            /\ outcome' = [kind |-> "thrown", value |-> "", error |-> lastError]
            /\ UNCHANGED inFlight
    /\ UNCHANGED <<retries, initialDelay, i, delay, lastError, fnLog, sleeps>>
    /\ UNCHANGED nonRetryVars

\* line 23: fn resolves
FnResolves ==
    /\ rpc = "awaitFn"
    /\ \E v \in Values :
        /\ fnLog' = Append(fnLog, [ok |-> TRUE, value |-> v, error |-> NoError])
        /\ outcome' = [kind |-> "returned", value |-> v, error |-> NoError]
    /\ inFlight' = inFlight - 1
    /\ rpc' = "returned"
    /\ UNCHANGED <<retries, initialDelay, i, delay, lastError, sleeps>>
    /\ UNCHANGED nonRetryVars

\* Variant that retries on every error but a rate-limit one.
RetryConditionNotRateLimit(error, k, n) == ~isRateLimit(error) /\ k < n - 1

\* Variant that also waits after the last attempt.
RetryConditionOffByOne(error, k, n) == isRateLimit(error) /\ k < n

\* Variant that retries whatever the error is.
RetryConditionAnyError(error, k, n) == k < n - 1

\* lines 24-41: fn rejects
RetryCondition(error, k, n) == isRateLimit(error) /\ k < n - 1

FnRejects ==
    /\ rpc = "awaitFn"
    /\ \E error \in Errors :
        /\ fnLog' = Append(fnLog, [ok |-> FALSE, value |-> "", error |-> error])
        /\ lastError' = error
        /\ IF RetryCondition(error, i, retries)
           THEN /\ rpc' = "sleep"
                /\ UNCHANGED outcome
           ELSE /\ rpc' = "thrown"
                /\ outcome' = [kind |-> "thrown", value |-> "", error |-> error]
    /\ inFlight' = inFlight - 1
    /\ UNCHANGED <<retries, initialDelay, i, delay, sleeps>>
    /\ UNCHANGED nonRetryVars

\* Variant that never grows the delay.
NextDelayConstant(d) == d

\* line 36
NextDelay(d) == d * 2

\* lines 35-37: the timer fires, the delay doubles, the loop continues
TimerFires ==
    /\ rpc = "sleep"
    /\ sleeps' = Append(sleeps, delay)
    /\ delay' = NextDelay(delay)
    /\ i' = i + 1
    /\ rpc' = "loop"
    /\ UNCHANGED <<retries, initialDelay, lastError, fnLog, inFlight, outcome>>
    /\ UNCHANGED nonRetryVars

---------------------------------------------------------------------------
(* Strings *)

\* Strings are sequences of characters; requests draw theirs from Chars.
Chars == {"a", "A", " "}
Strs == UNION {[1..k -> Chars] : k \in 0..MaxStrLen}

\* A request field that should hold a string: missing, of another type
\* (a number, an array), or a string.
AbsentField == [kind |-> "absent", str |-> <<>>]
NonStringField == [kind |-> "nonString", str |-> <<>>]
StrField(str) == [kind |-> "string", str |-> str]
Fields ==
    {AbsentField, NonStringField} \cup
    {StrField(str) : str \in {x \in Strs : \A k \in 1..Len(x) : x[k] # "A"}}

\* Variant that takes '' for a value.
FalsyOnlyAbsent(f) == f.kind = "absent"

\* !x on a request field: missing and '' are falsy.
Falsy(f) == f.kind = "absent" \/ (f.kind = "string" /\ f.str = <<>>)

LowerChar(c) ==
    CASE c = "A" -> "a"
      [] c = "D" -> "d"
      [] c = "I" -> "i"
      [] c = "P" -> "p"
      [] OTHER -> c

toLowerCase(str) == [k \in 1..Len(str) |-> LowerChar(str[k])]

RECURSIVE trimStart(_)
trimStart(str) ==
    IF str # <<>> /\ Head(str) = " " THEN trimStart(Tail(str)) ELSE str

RECURSIVE trimEnd(_)
trimEnd(str) ==
    IF str # <<>> /\ str[Len(str)] = " "
    THEN trimEnd(SubSeq(str, 1, Len(str) - 1)) ELSE str

trim(str) == trimEnd(trimStart(str))

\* str.includes(sub)
includes(str, sub) ==
    \E k \in 1..(Len(str) + 1) :
        /\ k + Len(sub) - 1 <= Len(str)
        /\ SubSeq(str, k, k + Len(sub) - 1) = sub

---------------------------------------------------------------------------
(* AIService operations over callWithRetry *)

AIOps == {"analyzePrescription", "analyzeOCRText", "getOTCRecommendations",
          "getMedicineDetails", "chatbotResponse"}

\* response.text(): nothing, text that is no JSON, the text null, JSON of
\* another shape than the prompt asks for, JSON of that shape, and the same
\* inside a ```json fence.
Contents == {"empty", "garbage", "null", "jsonOther", "json", "fencedJson"}

\* How the awaited remote call ends: callWithRetry or text() throws, or
\* text() returns a content.
RemoteOutcomes == {"throws"} \cup Contents

\* content.replace(/```json\n?|\n?```/g, '').trim()
StripFences(content) == IF content = "fencedJson" THEN "json" ELSE content

\* The fields of an OCR answer that analyzeOCRText reads and rewrites.
NoOCR == [expiryDate |-> [kind |-> "absent", day |-> 0], isExpired |-> FALSE,
          recommendation |-> "absent"]
OCRParsed ==
    [expiryDate : ExpiryValues, isExpired : BOOLEAN,
     recommendation : {"absent", "keep", "donate", "dispose"}]

NoResult == [kind |-> "none", ocr |-> NoOCR]
PlainResult(k) == [kind |-> k, ocr |-> NoOCR]

\* createFallbackPrescriptionResponse, createFallbackOCRResponse,
\* createFallbackOTCResponse, createFallbackMedicineDetails
createFallback(op, t) ==
    IF op = "analyzeOCRText"
    THEN [kind |-> "fallback",
          ocr |-> [expiryDate |-> [kind |-> "date", day |-> (t \div TicksPerDay) + 365],
                   isExpired |-> FALSE, recommendation |-> "dispose"]]
    ELSE PlainResult("fallback")

\* analyzeOCRText lines 134-146
OCRPostProcess(parsed, t) ==
    IF Truthy(parsed.expiryDate)
    THEN LET expiry == NewDate(parsed.expiryDate)
             today == DateNow(t)
             expired == DateLess(expiry, today)
         IN [expiryDate |-> parsed.expiryDate,
             isExpired |-> expired,
             recommendation |->
                IF expired THEN "dispose"
                ELSE IF parsed.recommendation \in {"absent", "keep"} THEN "donate"
                ELSE parsed.recommendation]
    ELSE parsed

\* The if (content) { try { ... JSON.parse ... } catch { fallback } } block
\* of the four structured operations, for a non-empty content.
ParsedResult(op, content, parsed, t) ==
    LET c == StripFences(content) IN
    IF c = "garbage" THEN createFallback(op, t)
    ELSE IF c = "null"
         \* analyzeOCRText reads parsed.expiryDate of null: caught, fallback
         THEN (IF op = "analyzeOCRText" THEN createFallback(op, t)
               ELSE PlainResult("null"))
    ELSE IF c = "jsonOther" THEN PlainResult("other")
    ELSE IF op = "analyzeOCRText"
         THEN [kind |-> "expected", ocr |-> OCRPostProcess(parsed, t)]
    ELSE PlainResult("expected")

\* What an operation resolves with once the awaited call ended with o.
AIResultOf(op, o, parsed, t) ==
    IF op = "chatbotResponse"
    THEN (IF o \in {"throws", "empty"} THEN PlainResult("trouble")
          ELSE PlainResult("text"))
    ELSE IF o \in {"throws", "empty"} THEN createFallback(op, t)
    ELSE ParsedResult(op, o, parsed, t)

\* medicineCache
CACHE_TTL == 3600000

\* Variant that lower-cases the name but keeps its surrounding whitespace.
normalizedNameNoTrim(medicineName) == toLowerCase(medicineName)

normalizedName(medicineName) == trim(toLowerCase(medicineName))

\* Variant that still serves an entry whose age equals the TTL.
cacheHitInclusive(cache, key, t) ==
    key \in DOMAIN cache /\ t - cache[key].timestamp <= CACHE_TTL

\* line 286
cacheHit(cache, key, t) ==
    key \in DOMAIN cache /\ t - cache[key].timestamp < CACHE_TTL

\* Variant that keeps the entry a key already has.
cacheSetIfAbsent(cache, key, data, t) ==
    [k \in DOMAIN cache \cup {key} |->
        IF k = key /\ k \notin DOMAIN cache
        THEN [data |-> data, timestamp |-> t] ELSE cache[k]]

\* Variant that stamps every entry with time 0.
cacheSetEpoch(cache, key, data, t) ==
    [k \in DOMAIN cache \cup {key} |->
        IF k = key THEN [data |-> data, timestamp |-> 0] ELSE cache[k]]

\* lines 322-325
cacheSet(cache, key, data, t) ==
    [k \in DOMAIN cache \cup {key} |->
        IF k = key THEN [data |-> data, timestamp |-> t] ELSE cache[k]]

\* The cache after a miss resolved with result r: only a parsed, non-null
\* answer is stored.
cacheAfter(cache, key, r, t) ==
    IF r.kind \in {"expected", "other"} THEN cacheSet(cache, key, r, t) ELSE cache

\* chatbotResponse lines 236-239: no API key, no remote call
ChatNotConfigured ==
    /\ aiOp = "chatbotResponse" /\ ~apiKey
    /\ aiResult = NoResult
    /\ aiResult' = PlainResult("notConfigured")
    /\ UNCHANGED <<apiKey, aiOp, aiArg, aiSaw>>
    /\ UNCHANGED <<nonAIVars, cacheVars>>

\* The operation continues after await this.callWithRetry(...).
AIServiceSettle ==
    /\ aiResult = NoResult
    /\ rpc \in {"returned", "thrown"}
    /\ \E o \in RemoteOutcomes, parsed \in OCRParsed :
        /\ (rpc = "thrown" => o = "throws")
        /\ (aiOp # "analyzeOCRText" \/ StripFences(o) # "json" => parsed = NoOCR)
        /\ LET r == AIResultOf(aiOp, o, parsed, now) IN
            /\ aiSaw' = o
            /\ aiResult' = r
            /\ medicineCache' =
                IF aiOp = "getMedicineDetails"
                THEN cacheAfter(medicineCache, normalizedName(aiArg), r, clock)
                ELSE medicineCache
    /\ UNCHANGED <<apiKey, aiOp, aiArg, clock, ticks, calls>>
    /\ UNCHANGED nonAIVars

\* Date.now() advances between two steps of the server.
ClockSteps == {1, CACHE_TTL}

Tick ==
    /\ ticks < MaxTicks
    /\ ticks' = ticks + 1
    /\ \E d \in ClockSteps : clock' = clock + d
    /\ UNCHANGED <<medicineCache, calls>>
    /\ UNCHANGED nonCacheVars

\* The names looked up: every string of MaxStrLen characters.
MedicineNames == {str \in Strs : Len(str) = MaxStrLen}

DoneCalls == {k \in 1..Len(calls) : calls[k].done}

\* getMedicineDetails up to its first await: a live entry is returned,
\* otherwise the remote call is issued.
getMedicineDetailsStart ==
    /\ Len(calls) < MaxCalls
    /\ \E medicineName \in MedicineNames :
        LET key == normalizedName(medicineName)
            hit == cacheHit(medicineCache, key, clock)
        IN calls' = Append(calls,
                [name |-> medicineName, key |-> key, start |-> clock,
                 after |-> DoneCalls,
                 seen |-> IF key \in DOMAIN medicineCache
                          THEN <<medicineCache[key]>> ELSE <<>>,
                 hit |-> hit, done |-> hit, end |-> clock,
                 before |-> IF hit THEN DoneCalls ELSE {},
                 remote |-> IF hit THEN 0 ELSE 1,
                 saw |-> "",
                 result |-> IF hit THEN medicineCache[key].data ELSE NoResult,
                 stored |-> FALSE])
    /\ UNCHANGED <<clock, ticks, medicineCache>>
    /\ UNCHANGED nonCacheVars

\* getMedicineDetails after await this.callWithRetry(...): the answer is
\* parsed, cached when it parsed, and returned.
getMedicineDetailsSettle ==
    /\ \E k \in 1..Len(calls), o \in RemoteOutcomes :
        /\ ~calls[k].done
        /\ LET r == AIResultOf("getMedicineDetails", o, NoOCR, now)
               cache == cacheAfter(medicineCache, calls[k].key, r, clock)
           IN /\ medicineCache' = cache
              /\ calls' = [calls EXCEPT
                    ![k].done = TRUE, ![k].end = clock,
                    ![k].before = DoneCalls, ![k].saw = o, ![k].result = r,
                    ![k].stored =
                        /\ calls[k].key \in DOMAIN cache
                        /\ cache[calls[k].key] = [data |-> r, timestamp |-> clock]]
    /\ UNCHANGED <<clock, ticks>>
    /\ UNCHANGED nonCacheVars

---------------------------------------------------------------------------
(* Chat sessions *)

\* 60 * 60 * 1000: the idle limit and the period of the cleanup interval
SweepInterval == 3600000

\* new Date().toISOString() keeps the millisecond; new Date(iso).getTime()
\* reads it back.
toISOString(t) == <<"iso", t>>
getTime(iso) == iso[2]

\* Session ids are `chat_${Date.now()}_${random}`; two starts are taken
\* never to draw the same id, so ids are numbered in creation order.
\* UnknownId is an id no startChatSession has generated.
UnknownId == 0
SessionIds == 0..MaxSessions

\* req.body.message of sendMessage: missing, '', a value that is not a
\* string (a number, an object), a string.
ChatMessages == {AbsentField, NonStringField, StrField(<<>>), StrField(<<"a">>)}

\* req.body.sessionId of sendMessage: missing or an id.
NoSessionId == -1

\* What chatbotResponse resolves with.
ChatReplies == IF apiKey THEN {"text", "trouble"} ELSE {"notConfigured"}

Greeting == [sender |-> "bot", req |-> 0]

\* Variant that looks the id up among every session ever created.
hasSessionEverCreated(sessionId) == sessionId \in DOMAIN sessions

\* chatSessions.get(sessionId) is defined
hasSession(sessionId) == sessionId \in chatSessions

startChatSession ==
    /\ nextSession <= MaxSessions
    /\ LET sessionId == nextSession
           session == [messages |-> <<Greeting>>, context |-> <<>>,
                       createdAt |-> toISOString(clock),
                       lastActivity |-> toISOString(clock)]
       IN /\ sessions' = Append(sessions, session)
          /\ chatSessions' = chatSessions \cup {sessionId}
    /\ nextSession' = nextSession + 1
    /\ UNCHANGED <<sweepDue, sweepLog, reqs>>
    /\ UNCHANGED <<nonChatVars, cacheVars>>

\* A request as the handler sees it when it starts; message is the field
\* the route reads (message, symptoms or query).
NewReq(op, sessionId, message) ==
    [op |-> op, sessionId |-> sessionId, message |-> message,
     at |-> clock, mapBefore |-> chatSessions,
     pc |-> "done", status |-> 0, error |-> "", remote |-> 0,
     reply |-> "", result |-> NoResult, mapAfter |-> chatSessions]

\* sendMessage up to await aiService.chatbotResponse(...)
sendMessageStart ==
    /\ Len(reqs) < MaxReqs
    /\ \E sessionId \in SessionIds \cup {NoSessionId}, message \in ChatMessages :
        LET r == NewReq("send", sessionId, message)
            n == Len(reqs) + 1
        IN IF sessionId = NoSessionId \/ Falsy(message)
           THEN /\ reqs' = Append(reqs, [r EXCEPT !.status = 400,
                                    !.error = "Missing required fields"])
                /\ UNCHANGED sessions
           ELSE IF ~hasSession(sessionId)
           THEN /\ reqs' = Append(reqs, [r EXCEPT !.status = 404,
                                    !.error = "Session not found"])
                /\ UNCHANGED sessions
           ELSE /\ sessions' = [sessions EXCEPT ![sessionId].messages =
                                    Append(@, [sender |-> "user", req |-> n])]
                /\ reqs' = Append(reqs,
                                    [r EXCEPT !.pc = "await", !.remote = 1])
    /\ UNCHANGED <<chatSessions, nextSession, sweepDue, sweepLog>>
    /\ UNCHANGED <<nonChatVars, cacheVars>>

\* sendMessage after the await: the handler still holds the session object
\* it read before, whether or not the Map still does.
sendMessageSettle ==
    /\ \E n \in 1..Len(reqs), botResponse \in ChatReplies :
        /\ reqs[n].op = "send" /\ reqs[n].pc = "await"
        /\ LET sessionId == reqs[n].sessionId IN
            /\ sessions' = [sessions EXCEPT
                    ![sessionId].messages = Append(@, [sender |-> "bot", req |-> n]),
                    ![sessionId].lastActivity = toISOString(clock),
                    ![sessionId].context = Append(@, n)]
            \* generateSuggestions calls message.toLowerCase()
            /\ reqs' = [reqs EXCEPT
                    ![n].pc = "done", ![n].reply = botResponse,
                    ![n].status = IF reqs[n].message.kind = "string"
                                  THEN 200 ELSE 500,
                    ![n].error = IF reqs[n].message.kind = "string"
                                 THEN "" ELSE "Message failed",
                    ![n].mapAfter = chatSessions]
    /\ UNCHANGED <<chatSessions, nextSession, sweepDue, sweepLog>>
    /\ UNCHANGED <<nonChatVars, cacheVars>>

getChatHistory ==
    /\ Len(reqs) < MaxReqs
    /\ \E sessionId \in SessionIds :
        LET r == NewReq("history", sessionId, AbsentField) IN
        reqs' = Append(reqs,
            IF hasSession(sessionId) THEN [r EXCEPT !.status = 200]
            ELSE [r EXCEPT !.status = 404, !.error = "Session not found"])
    /\ UNCHANGED <<chatSessions, sessions, nextSession, sweepDue, sweepLog>>
    /\ UNCHANGED <<nonChatVars, cacheVars>>

endChatSession ==
    /\ Len(reqs) < MaxReqs
    /\ \E sessionId \in SessionIds :
        LET r == NewReq("end", sessionId, AbsentField) IN
        IF ~hasSession(sessionId)
        THEN /\ reqs' = Append(reqs, [r EXCEPT !.status = 404,
                                !.error = "Session not found"])
             /\ UNCHANGED chatSessions
        ELSE /\ chatSessions' = chatSessions \ {sessionId}
             /\ reqs' = Append(reqs,
                    [r EXCEPT !.status = 200,
                              !.mapAfter = chatSessions \ {sessionId}])
    /\ UNCHANGED <<sessions, nextSession, sweepDue, sweepLog>>
    /\ UNCHANGED <<nonChatVars, cacheVars>>

\* Variant of the idle test that spares a session idle for less than two
\* intervals.
isIdleTwoIntervals(session, oneHourAgo) ==
    getTime(session.lastActivity) < oneHourAgo - SweepInterval

\* Variant that also takes a session idle for exactly one hour.
isIdleInclusive(session, oneHourAgo) ==
    getTime(session.lastActivity) <= oneHourAgo

\* new Date(session.lastActivity).getTime() < oneHourAgo
isIdle(session, oneHourAgo) ==
    getTime(session.lastActivity) < oneHourAgo

\* The setInterval callback: runs to completion, then the timer is armed
\* again one interval later.
sessionCleanup ==
    /\ clock >= sweepDue
    /\ LET oneHourAgo == clock - SweepInterval
           kept == {id \in chatSessions : ~isIdle(sessions[id], oneHourAgo)}
       IN /\ chatSessions' = kept
          /\ sweepLog' = Append(sweepLog,
                [time |-> clock, before |-> chatSessions,
                 after |-> [id \in kept |-> sessions[id].lastActivity],
                 removed |-> [id \in chatSessions \ kept |->
                                sessions[id].lastActivity]])
    /\ sweepDue' = clock + SweepInterval
    /\ UNCHANGED <<sessions, nextSession, reqs>>
    /\ UNCHANGED <<nonChatVars, cacheVars>>

---------------------------------------------------------------------------
(* OTC routes *)

\* getOTCRecommendations (route) up to await aiService.getOTCRecommendations
getOTCRecommendationsStart ==
    /\ Len(reqs) < MaxReqs
    /\ \E symptoms \in Fields :
        LET r == NewReq("otc", NoSessionId, symptoms) IN
        reqs' = Append(reqs,
            IF Falsy(symptoms) \/ symptoms.kind # "string"
               \/ Len(trim(symptoms.str)) < 2
            THEN [r EXCEPT !.status = 400, !.error = "Invalid symptoms"]
            ELSE [r EXCEPT !.pc = "await", !.remote = 1])
    /\ UNCHANGED <<chatSessions, sessions, nextSession, sweepDue, sweepLog>>
    /\ UNCHANGED <<nonChatVars, cacheVars>>

\* The route after the await: whatever the service resolved with is
\* spread into the response.
getOTCRecommendationsSettle ==
    /\ \E n \in 1..Len(reqs), o \in RemoteOutcomes :
        /\ reqs[n].op = "otc" /\ reqs[n].pc = "await"
        /\ reqs' = [reqs EXCEPT
                ![n].pc = "done", ![n].status = 200,
                ![n].result = AIResultOf("getOTCRecommendations", o, NoOCR, now),
                ![n].mapAfter = chatSessions]
    /\ UNCHANGED <<chatSessions, sessions, nextSession, sweepDue, sweepLog>>
    /\ UNCHANGED <<nonChatVars, cacheVars>>

\* name and category of the three mockResults
mockResults ==
    {[name |-> <<"P","a","r","a","c","e","t","a","m","o","l">>,
      category |-> <<"P","a","i","n"," ","r","e","l","i","e","v","e","r">>],
     [name |-> <<"I","b","u","p","r","o","f","e","n">>,
      category |-> <<"A","n","t","i","-","i","n","f","l","a","m","m","a","t","o","r","y">>],
     [name |-> <<"A","n","t","a","c","i","d">>,
      category |-> <<"D","i","g","e","s","t","i","v","e">>]}

\* First conjunct of the mockResults filter.
mockMatches(med, query) ==
    \/ includes(toLowerCase(med.name), toLowerCase(query))
    \/ includes(toLowerCase(med.category), toLowerCase(query))

\* if (aiResult): null is falsy; the fallback, an answer of the expected
\* shape and any other parsed object are truthy.
aiResultTruthy(r) == r.kind # "null"

\* aiResult.name is a string in the fallback and in an answer of the
\* expected shape; a parsed object of another shape has none.
hasNameString(r) == r.kind \in {"fallback", "expected"}

\* The rest of searchOTCMedicines once aiResult (details) is known: the filter
\* reads aiResult.name.toLowerCase() for every mock medicine that matches
\* the query, and a TypeError there ends in the catch block.
searchResponse(r, details) ==
    IF /\ aiResultTruthy(details) /\ ~hasNameString(details)
       /\ \E med \in mockResults : mockMatches(med, r.message.str)
    THEN [r EXCEPT !.pc = "done", !.status = 500, !.error = "Search failed",
                   !.result = details]
    ELSE [r EXCEPT !.pc = "done", !.status = 200, !.result = details]

\* searchOTCMedicines up to the remote call inside getMedicineDetails; on
\* a cache hit nothing is awaited but the resolved promise.
searchOTCMedicinesStart ==
    /\ Len(reqs) < MaxReqs
    /\ \E query \in Fields :
        LET r == NewReq("search", NoSessionId, query)
            key == normalizedName(query.str)
        IN reqs' = Append(reqs,
            IF Falsy(query) \/ query.kind # "string"
            THEN [r EXCEPT !.status = 400, !.error = "Invalid search query"]
            ELSE IF cacheHit(medicineCache, key, clock)
            THEN searchResponse(r, medicineCache[key].data)
            ELSE [r EXCEPT !.pc = "await", !.remote = 1])
    /\ UNCHANGED <<chatSessions, sessions, nextSession, sweepDue, sweepLog>>
    /\ UNCHANGED <<nonChatVars, cacheVars>>

\* getMedicineDetails after its await, then the rest of the route.
searchOTCMedicinesSettle ==
    /\ \E n \in 1..Len(reqs), o \in RemoteOutcomes :
        /\ reqs[n].op = "search" /\ reqs[n].pc = "await"
        /\ LET details == AIResultOf("getMedicineDetails", o, NoOCR, now)
               key == normalizedName(reqs[n].message.str)
           IN /\ medicineCache' = cacheAfter(medicineCache, key, details, clock)
              /\ reqs' = [reqs EXCEPT ![n] =
                    [searchResponse(reqs[n], details) EXCEPT
                        !.mapAfter = chatSessions]]
    /\ UNCHANGED <<clock, ticks, calls>>
    /\ UNCHANGED <<chatSessions, sessions, nextSession, sweepDue, sweepLog>>
    /\ UNCHANGED nonChatVars

---------------------------------------------------------------------------
(* Client: ranking the donation centers by distance *)

\* A facility is given by its place in the response and by the value of
\* R * c for it, the great-circle distance from the origin, in metres.
Distances == {2000, 14996, 15004, 15005, 20000}

Responses ==
    UNION {{[k \in 1..n |-> [id |-> k, meters |-> f[k]]] : f \in [1..n -> Distances]}
            : n \in 0..MaxFacilities}

\* (R * c).toFixed(2), read back by parseFloat: kilometres rounded to two
\* decimals, here in hundredths of a kilometre.
calculateDistance(meters) == (meters + 5) \div 10

RadiusKm == 15

\* Variant of the filter that drops a facility at exactly the radius.
withinRadiusStrict(c) == calculateDistance(c.meters) < RadiusKm * 100

\* parseFloat(calculateDistance(...)) <= 15
withinRadius(c) == calculateDistance(c.meters) <= RadiusKm * 100

\* Array.prototype.filter
RECURSIVE filter(_)
filter(list) ==
    IF list = <<>> THEN <<>>
    ELSE IF withinRadius(Head(list)) THEN <<Head(list)>> \o filter(Tail(list))
    ELSE filter(Tail(list))

\* Array.prototype.sort with the comparator distA - distB: stable, so an
\* element goes behind those sorted so far that are not farther.
\* Variant that puts an element in front of those at the same distance.
RECURSIVE insertBeforeEqual(_, _)
insertBeforeEqual(list, c) ==
    IF list = <<>> THEN <<c>>
    ELSE IF calculateDistance(Head(list).meters) - calculateDistance(c.meters) < 0
         THEN <<Head(list)>> \o insertBeforeEqual(Tail(list), c)
    ELSE <<c>> \o list

RECURSIVE insert(_, _)
insert(list, c) ==
    IF list = <<>> THEN <<c>>
    ELSE IF calculateDistance(Head(list).meters) - calculateDistance(c.meters) <= 0
         THEN <<Head(list)>> \o insert(Tail(list), c)
    ELSE <<c>> \o list

RECURSIVE sort(_)
sort(list) ==
    IF list = <<>> THEN <<>>
    ELSE insert(sort(SubSeq(list, 1, Len(list) - 1)), list[Len(list)])

\* The success callback of getUserLocation once the response is read:
\* data.data.centers is sorted in place and then filtered.
getUserLocation ==
    /\ rankRan = ""
    /\ responseCenters' = sort(responseCenters)
    /\ donationCenters' = filter(sort(responseCenters))
    /\ rankRan' = "getUserLocation"
    /\ UNCHANGED <<geocodedCenter, alerted>>
    /\ UNCHANGED nonRankVars

\* findDonationCenters once the response is read: a copy is ranked when
\* the response carries the geocoded origin.
clientFindDonationCenters ==
    /\ rankRan = ""
    /\ LET finalCenters == IF geocodedCenter THEN filter(sort(responseCenters))
                           ELSE responseCenters
       IN /\ donationCenters' = finalCenters
          /\ alerted' = (Len(finalCenters) = 0)
    /\ rankRan' = "findDonationCenters"
    /\ UNCHANGED <<responseCenters, geocodedCenter>>
    /\ UNCHANGED nonRankVars

---------------------------------------------------------------------------
(* Server: findDonationCenters *)

\* req.query.lat and req.query.lng: not sent, sent empty, a number, or
\* text parseFloat reads as NaN.
CoordValues == {"absent", "empty", "number", "text"}
CoordTruthy(c) == c \in {"number", "text"}

NoQuery == [location |-> AbsentField, lat |-> "absent", lng |-> "absent"]
Queries == [location : Fields, lat : CoordValues, lng : CoordValues]

NoCentersResp ==
    [status |-> 0, centers |-> <<>>, total |-> 0, source |-> "",
     searched |-> FALSE, found |-> 0]

\* Whether fetchNearbyPlaces gets as far as asking a remote service: with
\* coordinates always, with a location query when it is a string that is
\* not blank (trim of an array throws and is caught).
searches(locationQuery, useCoords) ==
    \/ useCoords
    \/ /\ locationQuery.kind = "string"
       /\ Len(trim(locationQuery.str)) # 0

\* Variant that falls back on the example centers whenever the list is
\* empty.
useMockWhenEmpty(finalCenters, location, qLat) == Len(finalCenters) = 0

\* finalCenters.length === 0 && !location && !qLat
useMock(finalCenters, location, qLat) ==
    Len(finalCenters) = 0 /\ Falsy(location) /\ ~CoordTruthy(qLat)

findDonationCenters ==
    /\ centersResp = NoCentersResp
    /\ LET useCoords == CoordTruthy(reqQuery.lat) /\ CoordTruthy(reqQuery.lng)
           searched == searches(reqQuery.location, useCoords)
       IN \E n \in 0..MaxCenters :
            \* nothing is found without a search, nor around NaN
            /\ (~searched => n = 0)
            /\ (useCoords /\ "text" \in {reqQuery.lat, reqQuery.lng} => n = 0)
            /\ LET centers == FoundCenters(n)
                   usedMock == useMock(centers, reqQuery.location, reqQuery.lat)
                   finalCenters == IF usedMock THEN MOCK_CENTERS ELSE centers
               IN centersResp' =
                    [status |-> 200, centers |-> finalCenters,
                     total |-> Len(finalCenters),
                     source |-> IF usedMock THEN "Mock Data (API Limit/Error)"
                                ELSE "OpenStreetMap",
                     searched |-> searched, found |-> n]
    /\ UNCHANGED reqQuery
    /\ UNCHANGED nonEndpointVars

---------------------------------------------------------------------------
(* Specifications *)

ClassifyIdle ==
    /\ now = 0 /\ tz = 0 /\ input = NoInfo
    /\ serverResp = NoResp /\ lookups = 0
    /\ clientRec = NoRec /\ clientRan = FALSE

RetryIdle ==
    /\ retries = DefaultRetries /\ initialDelay = DefaultInitialDelay
    /\ rpc = "idle" /\ i = 0 /\ delay = DefaultInitialDelay
    /\ lastError = NoError /\ fnLog = <<>> /\ sleeps = <<>>
    /\ inFlight = 0 /\ outcome = NoOutcome

AIIdle ==
    /\ apiKey = TRUE /\ aiOp = "none" /\ aiArg = <<>>
    /\ aiSaw = "" /\ aiResult = NoResult

ChatIdle ==
    /\ chatSessions = {} /\ sessions = <<>> /\ nextSession = 1
    /\ sweepDue = SweepInterval /\ sweepLog = <<>> /\ reqs = <<>>

EndpointIdle == reqQuery = NoQuery /\ centersResp = NoCentersResp

RankIdle ==
    /\ responseCenters = <<>> /\ geocodedCenter = FALSE /\ donationCenters = <<>>
    /\ rankRan = "" /\ alerted = FALSE

CacheIdle ==
    /\ clock = 0 /\ ticks = 0 /\ medicineCache = <<>> /\ calls = <<>>

\* The decision table, applied to every input at every instant of one UTC
\* day, on hosts east and west of Greenwich.
InitClassify ==
    /\ now \in TicksPerDay..(2 * TicksPerDay - 1)
    /\ tz \in (-MaxTz)..MaxTz
    /\ input \in Inputs
    /\ serverResp = NoResp /\ lookups = 0
    /\ clientRec = NoRec /\ clientRan = FALSE
    /\ RetryIdle /\ AIIdle /\ CacheIdle /\ ChatIdle /\ RankIdle
    /\ EndpointIdle

NextClassify == getDonateDisposeRecommendation \/ getRecommendation

SpecClassify == InitClassify /\ [][NextClassify]_vars

\* One call of callWithRetry (lines 17-19).
InitRetry ==
    /\ retries \in 1..MaxRetries
    /\ initialDelay \in InitialDelays
    /\ delay = initialDelay
    /\ i = 0
    /\ rpc = "loop"
    /\ lastError = NoError /\ fnLog = <<>> /\ sleeps = <<>>
    /\ inFlight = 0 /\ outcome = NoOutcome
    /\ ClassifyIdle /\ AIIdle /\ CacheIdle /\ ChatIdle /\ RankIdle
    /\ EndpointIdle

NextRetry == LoopStep \/ FnResolves \/ FnRejects \/ TimerFires

SpecRetry == InitRetry /\ [][NextRetry]_vars

\* One AIService operation, called the way the routes call it: retries
\* and initialDelay at their defaults, an empty cache.
InitAI ==
    /\ aiOp \in AIOps
    /\ apiKey \in BOOLEAN
    /\ aiArg = <<"A", " ">>
    /\ aiSaw = "" /\ aiResult = NoResult
    /\ retries = DefaultRetries /\ initialDelay = DefaultInitialDelay
    /\ delay = DefaultInitialDelay /\ i = 0
    /\ rpc = IF aiOp = "chatbotResponse" /\ ~apiKey THEN "idle" ELSE "loop"
    /\ lastError = NoError /\ fnLog = <<>> /\ sleeps = <<>>
    /\ inFlight = 0 /\ outcome = NoOutcome
    /\ now \in TicksPerDay..(2 * TicksPerDay - 1) /\ tz = 0 /\ input = NoInfo
    /\ serverResp = NoResp /\ lookups = 0
    /\ clientRec = NoRec /\ clientRan = FALSE
    /\ CacheIdle /\ ChatIdle /\ RankIdle
    /\ EndpointIdle

NextAI ==
    \/ LoopStep \/ FnResolves \/ FnRejects \/ TimerFires
    \/ ChatNotConfigured \/ AIServiceSettle

SpecAI == InitAI /\ [][NextAI]_vars

\* getMedicineDetails called any number of times, also concurrently, on a
\* server that starts with an empty cache.
InitCache ==
    /\ CacheIdle
    /\ ClassifyIdle /\ RetryIdle /\ AIIdle /\ ChatIdle /\ RankIdle
    /\ EndpointIdle

NextCache == getMedicineDetailsStart \/ getMedicineDetailsSettle \/ Tick

SpecCache == InitCache /\ [][NextCache]_vars

\* The chat routes of a server started at time 0, serving requests that
\* may overlap, with the cleanup interval running.
InitChat ==
    /\ ChatIdle
    /\ ClassifyIdle /\ RetryIdle /\ AIIdle /\ CacheIdle /\ RankIdle
    /\ EndpointIdle

NextChat ==
    \/ startChatSession \/ sendMessageStart \/ sendMessageSettle
    \/ getChatHistory \/ endChatSession \/ sessionCleanup \/ Tick

SpecChat == InitChat /\ [][NextChat]_vars

\* The four routes that reject a request lacking its required input: the
\* recommendation route with a few request bodies, and the send-message,
\* OTC-recommendation and medicine-search routes.
RouteInputs ==
    {m \in Inputs :
        /\ m.expiryDate.kind = "absent" /\ ~m.expiryNotAvailable /\ ~m.name
        /\ m.hasInfo => m.condition = "unopened" /\ m.medicineType = "otc"}

\* One session, started at time 0, is open.
OneSession ==
    /\ chatSessions = {1}
    /\ sessions = <<[messages |-> <<Greeting>>, context |-> <<>>,
                     createdAt |-> toISOString(0),
                     lastActivity |-> toISOString(0)]>>
    /\ nextSession = 2
    /\ sweepDue = SweepInterval /\ sweepLog = <<>> /\ reqs = <<>>

InitRoutes ==
    /\ now = TicksPerDay /\ tz = 0
    /\ input \in RouteInputs
    /\ serverResp = NoResp /\ lookups = 0
    /\ clientRec = NoRec /\ clientRan = FALSE
    /\ RetryIdle /\ AIIdle /\ CacheIdle /\ OneSession /\ RankIdle
    /\ EndpointIdle

NextRoutes ==
    \/ getDonateDisposeRecommendation
    \/ sendMessageStart \/ sendMessageSettle
    \/ getOTCRecommendationsStart \/ getOTCRecommendationsSettle
    \/ searchOTCMedicinesStart \/ searchOTCMedicinesSettle

SpecRoutes == InitRoutes /\ [][NextRoutes]_vars

\* The client handling one donation-centers response. The server sends
\* centers only together with the origin it searched around.
InitRank ==
    /\ responseCenters \in Responses
    /\ geocodedCenter \in BOOLEAN
    /\ (~geocodedCenter => responseCenters = <<>>)
    /\ donationCenters = <<>> /\ rankRan = "" /\ alerted = FALSE
    /\ ClassifyIdle /\ RetryIdle /\ AIIdle /\ CacheIdle /\ ChatIdle
    /\ EndpointIdle

NextRank == getUserLocation \/ clientFindDonationCenters

SpecRank == InitRank /\ [][NextRank]_vars

\* One request to the donation-centers endpoint.
InitEndpoint ==
    /\ reqQuery \in Queries
    /\ centersResp = NoCentersResp
    /\ ClassifyIdle /\ RetryIdle /\ AIIdle /\ CacheIdle /\ ChatIdle /\ RankIdle

NextEndpoint == findDonationCenters

SpecEndpoint == InitEndpoint /\ [][NextEndpoint]_vars

---------------------------------------------------------------------------
(* Properties of the decision table *)

\* The disposition kind of a recommendation string: the server answers
\* "Consult" / "Dispose" / "Donate", the client stores the lower-case kinds.
Kind(r) ==
    CASE r \in {"Consult", "consult"} -> "consult"
      [] r \in {"Dispose", "dispose"} -> "dispose"
      [] r \in {"Donate", "donate"} -> "donate"
      [] r \in {"Keep", "keep"} -> "keep"
      [] OTHER -> "none"

ServerDone == serverResp.status = 200
ClientDone == clientRec # NoRec
ServerKind == Kind(serverResp.recommendation)
ClientKind == Kind(clientRec.recommendation)

\* The calendar day of the evaluation, and the expiry date against it.
Today == LocalDay(now, tz)
ExpiryKnown == ~input.expiryNotAvailable
HasDate == input.expiryDate.kind = "date"
PastExpiry == HasDate /\ input.expiryDate.day < Today
SameDayExpiry == HasDate /\ input.expiryDate.day = Today
NonPastExpiry == HasDate /\ input.expiryDate.day >= Today

\* C1: whenever the expiry is marked unknown, the server handler and the
\* client assessment both return 'consult', whatever the expiry date,
\* condition and medicine type are.
C1_UnknownExpiryConsult ==
    /\ (ServerDone /\ input.expiryNotAvailable => ServerKind = "consult")
    /\ (ClientDone /\ input.expiryNotAvailable => ClientKind = "consult")

C1_Witness ==
    /\ ServerDone /\ input.expiryNotAvailable /\ PastExpiry
    /\ input.medicineType = "controlled" /\ input.condition = "opened"
    /\ ServerKind = "consult"

\* C2: a known expiry date strictly before the current date gives
\* 'dispose' for every condition and every medicine type.
C2_PastExpiryDispose ==
    /\ (ServerDone /\ ExpiryKnown /\ PastExpiry => ServerKind = "dispose")
    /\ (ClientDone /\ ExpiryKnown /\ PastExpiry => ClientKind = "dispose")

C2_Witness ==
    /\ ServerDone /\ ClientDone /\ ExpiryKnown /\ PastExpiry
    /\ input.expiryDate.day = Today - 1
    /\ input.medicineType = "not-sure" /\ input.condition = "unopened"
    /\ ServerKind = "dispose" /\ ClientKind = "dispose"

\* C3: the result is 'donate' if and only if the expiry is known and not in
\* the past, the type is a known non-controlled type and the condition is
\* 'unopened'.
DonateEligible ==
    /\ ExpiryKnown /\ NonPastExpiry
    /\ input.medicineType \in {"otc", "prescription"}
    /\ input.condition = "unopened"

C3_DonateIffEligible ==
    /\ (ServerDone => (ServerKind = "donate" <=> DonateEligible))
    /\ (ClientDone => (ClientKind = "donate" <=> DonateEligible))

\* C4: an unopened medicine of a known non-controlled type that expires on
\* the day of the evaluation is classified 'donate' by the server handler
\* and by the client assessment.
C4_SameDayNotExpired ==
    /\ (ServerDone /\ DonateEligible /\ SameDayExpiry => ServerKind = "donate")
    /\ (ClientDone /\ DonateEligible /\ SameDayExpiry => ClientKind = "donate")

\* C5: every request that carries medicineInfo is answered with one of the
\* four dispositions, and one with no expiry date (not marked unknown), no
\* medicine type, or a type or condition outside the enumerations is never
\* answered 'donate'.
UnsureInput ==
    \/ (input.expiryDate.kind = "absent" /\ ~input.expiryNotAvailable)
    \/ input.medicineType \notin MedicineTypes
    \/ input.condition \notin Conditions

C5_TotalNeverDonateWhenUnsure ==
    /\ input.hasInfo /\ serverResp # NoResp =>
            ServerDone /\ ServerKind \in {"keep", "donate", "dispose", "consult"}
    /\ ServerDone /\ UnsureInput => ServerKind # "donate"

\* C6: with a known, non-past expiry a controlled medicine gives 'dispose'
\* for every condition.
C6_ControlledDispose ==
    /\ (ServerDone /\ ExpiryKnown /\ NonPastExpiry /\ input.medicineType = "controlled"
            => ServerKind = "dispose")
    /\ (ClientDone /\ ExpiryKnown /\ NonPastExpiry /\ input.medicineType = "controlled"
            => ClientKind = "dispose")

C6_Witness ==
    /\ ServerDone /\ ClientDone /\ ExpiryKnown
    /\ HasDate /\ input.expiryDate.day > Today
    /\ input.medicineType = "controlled" /\ input.condition = "unopened"
    /\ ServerKind = "dispose" /\ ClientKind = "dispose"

\* C7: with a known, non-past expiry a medicine of type 'not-sure' gives
\* 'consult' for every condition.
C7_UnsureTypeConsult ==
    /\ (ServerDone /\ ExpiryKnown /\ NonPastExpiry /\ input.medicineType = "not-sure"
            => ServerKind = "consult")
    /\ (ClientDone /\ ExpiryKnown /\ NonPastExpiry /\ input.medicineType = "not-sure"
            => ClientKind = "consult")

\* C8: with a known, non-past expiry and type otc or prescription, an
\* opened or partial medicine gives 'dispose'.
C8_OpenedDispose ==
    /\ (ServerDone /\ ExpiryKnown /\ NonPastExpiry
            /\ input.medicineType \in {"otc", "prescription"}
            /\ input.condition \in {"opened", "partial"}
            => ServerKind = "dispose")
    /\ (ClientDone /\ ExpiryKnown /\ NonPastExpiry
            /\ input.medicineType \in {"otc", "prescription"}
            /\ input.condition \in {"opened", "partial"}
            => ClientKind = "dispose")

C8_Witness ==
    /\ ServerDone /\ ClientDone /\ ExpiryKnown
    /\ HasDate /\ input.expiryDate.day > Today
    /\ input.medicineType = "prescription" /\ input.condition = "partial"
    /\ ServerKind = "dispose" /\ ClientKind = "dispose"

---------------------------------------------------------------------------
(* Properties of callWithRetry *)

RECURSIVE Pow2(_)
Pow2(n) == IF n = 0 THEN 1 ELSE 2 * Pow2(n - 1)

RECURSIVE SumSeq(_)
SumSeq(s) == IF s = <<>> THEN 0 ELSE Head(s) + SumSeq(Tail(s))

\* Every invocation of fn so far failed with a rate-limit marker.
OnlyRateLimited(log) ==
    \A j \in 1..Len(log) : ~log[j].ok /\ isRateLimit(log[j].error)

\* C9: after k < retries rate-limited failures the call is still going on;
\* when fn then succeeds the call returns that value, the j-th wait was
\* initialDelay * 2^(j-1) and the waits sum to initialDelay * (2^k - 1).
C9_ExponentialBackoff ==
    /\ OnlyRateLimited(fnLog) /\ Len(fnLog) < retries =>
            rpc \in {"loop", "awaitFn", "sleep"}
    /\ rpc = "returned" =>
        LET k == Len(fnLog) - 1 IN
        /\ k < retries
        /\ OnlyRateLimited(SubSeq(fnLog, 1, k))
        /\ fnLog[k + 1].ok
        /\ outcome = [kind |-> "returned", value |-> fnLog[k + 1].value, error |-> NoError]
        /\ Len(sleeps) = k
        /\ \A j \in 1..k : sleeps[j] = initialDelay * Pow2(j - 1)
        /\ SumSeq(sleeps) = initialDelay * (Pow2(k) - 1)

C9_Witness ==
    /\ rpc = "returned" /\ retries = DefaultRetries /\ Len(fnLog) = 3
    /\ initialDelay = DefaultInitialDelay
    /\ sleeps = <<2000, 4000>>
    /\ outcome.value = "v2"

\* C10: an error that is not rate-limited ends the call at once: it is the
\* last invocation of fn, it is the error thrown, and no delay follows it.
C10_OtherErrorPropagates ==
    \A j \in 1..Len(fnLog) :
        ~fnLog[j].ok /\ ~isRateLimit(fnLog[j].error) =>
            /\ j = Len(fnLog)
            /\ rpc = "thrown"
            /\ outcome = [kind |-> "thrown", value |-> "", error |-> fnLog[j].error]
            /\ Len(sleeps) = j - 1
            /\ inFlight = 0

C10_Witness ==
    /\ rpc = "thrown" /\ retries = DefaultRetries /\ Len(fnLog) = 2
    /\ outcome.error.status = 500
    /\ Len(sleeps) = 1

\* C11: when every attempt fails with a rate-limit error, fn is invoked
\* exactly retries times, exactly retries - 1 delays are slept and the
\* error thrown is the one of the last attempt.
C11_ExhaustedThrowsLast ==
    /\ OnlyRateLimited(fnLog) /\ Len(fnLog) = retries =>
            rpc = "thrown"
    /\ rpc = "thrown" /\ OnlyRateLimited(fnLog) =>
            /\ Len(fnLog) = retries
            /\ Len(sleeps) = retries - 1
            /\ outcome = [kind |-> "thrown", value |-> "",
                          error |-> fnLog[Len(fnLog)].error]
            /\ inFlight = 0

C11_Witness ==
    /\ rpc = "thrown" /\ retries = DefaultRetries /\ OnlyRateLimited(fnLog)
    /\ Len(fnLog) = 3 /\ Len(sleeps) = 2
    /\ fnLog[1].error.status = 429
    /\ fnLog[3].error.status = 0 /\ fnLog[3].error.msgTooMany
    /\ outcome.error.msgTooMany

\* The fallback payload of the running operation: the static placeholder
\* of the four structured operations, the apology text of chatbotResponse.
IsFallback(r) ==
    IF aiOp = "chatbotResponse" THEN r.kind = "trouble"
    ELSE r = createFallback(aiOp, now)

\* The remote call ended in a way the operation must answer with its
\* fallback: it threw, gave no content, or gave content that is not the
\* structured shape the operation asked for.
RemoteFailed ==
    \/ aiSaw \in {"throws", "empty"}
    \/ /\ aiOp # "chatbotResponse"
       /\ \/ aiSaw \in {"garbage", "jsonOther"}
          \/ aiSaw = "null" /\ aiOp # "getMedicineDetails"

\* C15: an AIService operation never rejects, and when its remote call
\* threw, returned empty content or returned content that is not the
\* expected structured shape, it resolves with its fallback payload.
C15_FallbackOnRemoteFailure ==
    /\ aiResult.kind # "rejected"
    /\ aiResult # NoResult /\ RemoteFailed => IsFallback(aiResult)

---------------------------------------------------------------------------
(* Medicine-details cache *)

\* Two names that differ only in letter case or surrounding whitespace.
SameMedicine(n1, n2) == trim(toLowerCase(n1)) = trim(toLowerCase(n2))

\* Remote outcomes that are JSON other than null.
ParsedOutcomes == {"json", "fencedJson", "jsonOther"}

\* Lookup j started after lookup k had returned.
Later(k, j) == k \in calls[j].after

\* Lookup k missed and was followed, within the TTL window, by lookup j of
\* the same medicine.
Repeated(k, j) ==
    /\ Later(k, j)
    /\ ~calls[k].hit
    /\ SameMedicine(calls[k].name, calls[j].name)
    /\ calls[j].start - calls[k].start < CACHE_TTL

\* Another lookup of the same key stored its answer after k returned and
\* before j started.
Overwritten(k, j) ==
    \E l \in (1..Len(calls)) \ {k, j} :
        /\ calls[l].key = calls[k].key /\ calls[l].stored
        /\ l \in calls[j].after /\ k \in calls[l].before

ServedFrom(k, j) ==
    /\ calls[k].remote = 1
    /\ calls[j].hit /\ calls[j].remote = 0
    /\ Overwritten(k, j) \/ calls[j].result = calls[k].result

\* C12 as stated: of two lookups of the same medicine within the TTL
\* window only the first calls the remote service, and the second returns
\* the first one's value, whatever the first one's outcome was.
C12_SecondLookupCached ==
    \A k, j \in 1..Len(calls) : Repeated(k, j) => ServedFrom(k, j)

\* C12, amended: of two lookups of the same medicine within the TTL
\* window, when the first one's answer parsed as JSON other than null,
\* only the first calls the remote service and the second returns the
\* cached value (the first one's, unless a concurrent lookup of the key
\* stored its own in between).
C12_SecondLookupCachedIfParsed ==
    \A k, j \in 1..Len(calls) :
        Repeated(k, j) /\ calls[k].saw \in ParsedOutcomes => ServedFrom(k, j)

C12_Witness ==
    \E k, j \in 1..Len(calls) :
        /\ Repeated(k, j) /\ calls[k].saw = "json"
        /\ calls[k].name = <<" ", "a">> /\ calls[j].name = <<"A", " ">>
        /\ calls[j].start - calls[k].start = 1
        /\ calls[j].hit /\ calls[j].result = PlainResult("expected")

\* Lookup j started when the entry of its key had reached the TTL.
Expired(j) ==
    /\ calls[j].done
    /\ calls[j].seen # <<>>
    /\ calls[j].start - calls[j].seen[1].timestamp >= CACHE_TTL

\* C13 as stated: a lookup made once the entry's age has reached the TTL
\* does not return the stale value: it calls the remote service again and
\* overwrites the stored value and timestamp.
C13_ExpiredRefetchedAndOverwritten ==
    \A j \in 1..Len(calls) :
        Expired(j) =>
            /\ ~calls[j].hit /\ calls[j].remote = 1
            /\ calls[j].stored

\* C13, amended: a lookup made once the entry's age has reached the TTL
\* does not return the stale value: it calls the remote service again, and
\* it overwrites the stored value and timestamp exactly when the new answer
\* parses as JSON other than null.
C13_ExpiredRefetched ==
    \A j \in 1..Len(calls) :
        Expired(j) =>
            /\ ~calls[j].hit /\ calls[j].remote = 1
            /\ calls[j].stored <=> calls[j].saw \in ParsedOutcomes

C13_Witness ==
    \E j \in 1..Len(calls) :
        /\ Expired(j)
        /\ calls[j].start - calls[j].seen[1].timestamp = CACHE_TTL
        /\ calls[j].seen[1].data = PlainResult("other")
        /\ calls[j].saw = "json" /\ calls[j].stored
        /\ medicineCache[calls[j].key] =
                [data |-> PlainResult("expected"), timestamp |-> calls[j].end]

\* C14 as stated: after any completed miss the cache holds an entry for
\* the normalized key, stamped with the current time, whose value is the
\* value returned to the caller.
C14_MissStored ==
    \A j \in 1..Len(calls) :
        calls[j].done /\ ~calls[j].hit =>
            /\ calls[j].key = trim(toLowerCase(calls[j].name))
            /\ calls[j].stored

\* C14, amended: after a completed miss whose answer parsed as JSON other
\* than null, the cache holds an entry for the normalized key, stamped
\* with the current time, whose value is the value returned to the caller.
C14_ParsedMissStored ==
    \A j \in 1..Len(calls) :
        calls[j].done /\ ~calls[j].hit /\ calls[j].saw \in ParsedOutcomes =>
            /\ calls[j].key = trim(toLowerCase(calls[j].name))
            /\ calls[j].stored

C14_Witness ==
    \E j \in 1..Len(calls) :
        /\ calls[j].done /\ ~calls[j].hit /\ calls[j].saw = "fencedJson"
        /\ calls[j].name = <<" ", "A">> /\ calls[j].key = <<"a">>
        /\ calls[j].end = 1 /\ calls[j].stored
        /\ medicineCache[<<"a">>].timestamp = 1

---------------------------------------------------------------------------
(* Chat sessions *)

\* Request n names a session id that was not in the Map when it arrived.
NamesAbsentSession(n) ==
    /\ reqs[n].sessionId # NoSessionId
    /\ reqs[n].sessionId \notin reqs[n].mapBefore

NotFoundAnswer(n) ==
    /\ reqs[n].status = 404
    /\ reqs[n].remote = 0
    /\ reqs[n].mapAfter = reqs[n].mapBefore

\* Request e ended a session and request l, which arrived later, names it.
AfterEnd(e, l) ==
    /\ e < l
    /\ reqs[e].op = "end" /\ reqs[e].status = 200
    /\ reqs[l].sessionId = reqs[e].sessionId

\* C18 as stated: a send, history or end request naming a session id that
\* is not in the Map is answered 404 without a remote call and without a
\* change of the Map, and so is every request naming an id after
\* endChatSession succeeded for it.
C18_AbsentSessionNotFound ==
    \A n \in 1..Len(reqs) :
        /\ NamesAbsentSession(n) => NotFoundAnswer(n)
        /\ \A e \in 1..Len(reqs) : AfterEnd(e, n) => NotFoundAnswer(n)

\* A send request without a message is answered 400 before the session is
\* looked up.
Validated(n) == reqs[n].op = "send" => ~Falsy(reqs[n].message)

\* C18, amended: a history or end request, or a send request that carries
\* a message, naming a session id that is not in the Map is answered 404
\* without a remote call and without a change of the Map, and so is every
\* such request naming an id after endChatSession succeeded for it.
C18_ValidatedAbsentSessionNotFound ==
    \A n \in 1..Len(reqs) :
        Validated(n) =>
            /\ NamesAbsentSession(n) => NotFoundAnswer(n)
            /\ \A e \in 1..Len(reqs) : AfterEnd(e, n) => NotFoundAnswer(n)

C18_Witness ==
    /\ Len(reqs) = 2
    /\ AfterEnd(1, 2)
    /\ reqs[1].sessionId = 1 /\ reqs[1].mapBefore = {1, 2}
    /\ reqs[2].op = "send" /\ reqs[2].message = StrField(<<"a">>)
    /\ NotFoundAnswer(2)
    /\ chatSessions = {2}

\* C19: right after a cleanup run the Map holds no session whose
\* lastActivity is more than one hour before the time of the run.
C19_SweepRemovesIdle ==
    \A k \in 1..Len(sweepLog) :
        \A id \in DOMAIN sweepLog[k].after :
            getTime(sweepLog[k].after[id]) >= sweepLog[k].time - SweepInterval

C19_Witness ==
    \E k \in 1..Len(sweepLog) :
        /\ sweepLog[k].time = SweepInterval + 1
        /\ sweepLog[k].before = {1, 2}
        /\ DOMAIN sweepLog[k].after = {2}
        /\ getTime(sessions[1].lastActivity) = 0
        /\ getTime(sweepLog[k].after[2]) = 1

---------------------------------------------------------------------------
(* Routes: required input *)

\* A field that is not there: missing, or the empty string.
Missing(f) == f.kind = "absent" \/ (f.kind = "string" /\ f.str = <<>>)

\* Request n carries what its route requires, and for a chat message the
\* session it names was open when it arrived.
HasRequired(n) ==
    CASE reqs[n].op = "send" ->
            /\ reqs[n].sessionId \in reqs[n].mapBefore
            /\ ~Missing(reqs[n].message)
      [] reqs[n].op = "otc" ->
            /\ reqs[n].message.kind = "string"
            /\ Len(trim(toLowerCase(reqs[n].message.str))) >= 2
      [] reqs[n].op = "search" ->
            /\ reqs[n].message.kind = "string" /\ ~Missing(reqs[n].message)
      [] OTHER -> FALSE

\* C16: a recommendation, OTC-recommendation, medicine-search or
\* chat-message request that carries its required fields is never answered
\* with an error status, whatever the remote services return.
C16_RequiredFieldsSucceed ==
    /\ input.hasInfo /\ serverResp.status # 0 => serverResp.status = 200
    /\ \A n \in 1..Len(reqs) :
            HasRequired(n) /\ reqs[n].pc = "done" => reqs[n].status = 200

\* Request n lacks a required input.
LacksRequired(n) ==
    CASE reqs[n].op = "send" ->
            reqs[n].sessionId = NoSessionId \/ Missing(reqs[n].message)
      [] reqs[n].op = "otc" ->
            reqs[n].message.kind # "string" \/ Len(reqs[n].message.str) < 2
      [] reqs[n].op = "search" ->
            reqs[n].message.kind # "string" \/ Missing(reqs[n].message)
      [] OTHER -> FALSE

\* This step answers a request with status 400.
Rejects ==
    \/ serverResp.status = 0 /\ serverResp'.status = 400
    \/ /\ Len(reqs') = Len(reqs) + 1
       /\ reqs'[Len(reqs')].status = 400

\* C17: a request lacking a required input is answered 400 with an error
\* text and without a remote call, and the step that rejects it changes
\* neither the session map nor the cache.
C17_LackingInputRejected ==
    /\ [](/\ ~input.hasInfo /\ serverResp.status # 0 =>
                serverResp.status = 400 /\ lookups = 0
          /\ \A n \in 1..Len(reqs) :
                LacksRequired(n) =>
                    /\ reqs[n].status = 400 /\ reqs[n].error # ""
                    /\ reqs[n].remote = 0 /\ reqs[n].pc = "done")
    /\ [][Rejects =>
            /\ UNCHANGED <<chatSessions, sessions, medicineCache>>
            /\ UNCHANGED lookups
            /\ \A n \in 1..Len(reqs) : reqs'[n] = reqs[n]]_vars

C17_Witness ==
    /\ ~input.hasInfo /\ serverResp.status = 400
    /\ Len(reqs) = 2
    /\ reqs[1].op = "send" /\ reqs[1].sessionId = 1
    /\ reqs[1].message = StrField(<<>>) /\ reqs[1].status = 400
    /\ reqs[2].op = "search" /\ reqs[2].message = NonStringField
    /\ reqs[2].status = 400
    /\ chatSessions = {1} /\ Len(sessions[1].messages) = 1

---------------------------------------------------------------------------
(* Ranking by distance *)

Ranked == rankRan = "getUserLocation" \/ (rankRan = "findDonationCenters" /\ geocodedCenter)

Listed(list) == {list[k] : k \in 1..Len(list)}

\* C20: the ranked list holds exactly the facilities of the response whose
\* computed distance is at most 15 km, and it is the empty list, shown
\* without a failure, when there is none.
C20_ExactlyWithinRadius ==
    Ranked =>
        /\ \A c \in Listed(responseCenters) :
                c \in Listed(donationCenters)
                    <=> calculateDistance(c.meters) <= RadiusKm * 100
        /\ Listed(donationCenters) \subseteq Listed(responseCenters)
        /\ (\A c \in Listed(responseCenters) : calculateDistance(c.meters) > RadiusKm * 100)
                => donationCenters = <<>>

C20_Witness ==
    /\ rankRan = "findDonationCenters" /\ geocodedCenter
    /\ responseCenters = <<[id |-> 1, meters |-> 20000], [id |-> 2, meters |-> 15004],
                   [id |-> 3, meters |-> 2000]>>
    /\ donationCenters = <<[id |-> 3, meters |-> 2000], [id |-> 2, meters |-> 15004]>>
    /\ ~alerted

\* C21: the ranked list is in non-decreasing order of computed distance,
\* facilities at the same computed distance stand in their order in the
\* response, and every entry is a facility of the response, listed once.
C21_SortedStableSublist ==
    Ranked =>
        /\ \A j, k \in 1..Len(donationCenters) :
                j < k =>
                    /\ calculateDistance(donationCenters[j].meters)
                            <= calculateDistance(donationCenters[k].meters)
                    /\ calculateDistance(donationCenters[j].meters)
                            = calculateDistance(donationCenters[k].meters)
                        => donationCenters[j].id < donationCenters[k].id
                    /\ donationCenters[j] # donationCenters[k]
        /\ Listed(donationCenters) \subseteq Listed(responseCenters)
        /\ Len(responseCenters) = Cardinality(Listed(responseCenters))

C21_Witness ==
    /\ rankRan = "getUserLocation"
    /\ donationCenters = <<[id |-> 2, meters |-> 2000], [id |-> 1, meters |-> 15004],
                           [id |-> 3, meters |-> 14996]>>
    /\ responseCenters = donationCenters

---------------------------------------------------------------------------
(* Order of the attempts of callWithRetry *)

\* Number of invocations of fn started so far.
Started == Len(fnLog) + inFlight

\* C22: at most one invocation of fn is in flight; an attempt after the
\* first has started only after the one before it failed with a rate-limit
\* error and the delay after that failure elapsed; fn is invoked at most
\* retries times, and at least once by the time the call ends.
C22_AttemptsSequential ==
    /\ inFlight \in {0, 1}
    /\ rpc = "sleep" => inFlight = 0
    /\ \A k \in 1..(Started - 1) :
            /\ k <= Len(fnLog)
            /\ ~fnLog[k].ok
            /\ fnLog[k].error.status = 429 \/ fnLog[k].error.msg429
                    \/ fnLog[k].error.msgTooMany \/ fnLog[k].error.rateReason
            /\ Len(sleeps) >= k
    /\ Started <= retries
    /\ rpc \in {"returned", "thrown"} => Len(fnLog) >= 1

C22_Witness ==
    /\ rpc = "awaitFn" /\ inFlight = 1
    /\ retries = DefaultRetries
    /\ Len(fnLog) = 2 /\ Len(sleeps) = 2
    /\ sleeps[2] = 2 * initialDelay

---------------------------------------------------------------------------
(* Concurrent lookups *)

\* Lookups k and j missed on the same key, each before the other returned.
ConcurrentMisses(k, j) ==
    /\ k # j
    /\ ~calls[k].hit /\ ~calls[j].hit
    /\ calls[k].key = calls[j].key
    /\ k \notin calls[j].after /\ j \notin calls[k].after

\* Lookup l wrote the cache: it missed and its answer parsed as JSON other
\* than null.
Wrote(l) == calls[l].done /\ ~calls[l].hit /\ calls[l].saw \in ParsedOutcomes

\* Lookup l is the last one that wrote the entry of its key.
LastWriter(l) ==
    /\ Wrote(l)
    /\ \A m \in 1..Len(calls) :
            Wrote(m) /\ calls[m].key = calls[l].key => ~(l \in calls[m].before)

\* C23: the cache is keyed by normalized names, one entry each; two
\* lookups that miss on the same key before either returns both call the
\* remote service, and the entry of a key is the one written last.
C23_NoCoalescingLastWriteWins ==
    /\ \A key \in DOMAIN medicineCache : trim(toLowerCase(key)) = key
    /\ \A k, j \in 1..Len(calls) :
            ConcurrentMisses(k, j) => calls[k].remote = 1 /\ calls[j].remote = 1
    /\ \A l \in 1..Len(calls) :
            LastWriter(l) =>
                /\ calls[l].key \in DOMAIN medicineCache
                /\ medicineCache[calls[l].key] =
                        [data |-> calls[l].result, timestamp |-> calls[l].end]
    /\ \A key \in DOMAIN medicineCache :
            \E l \in 1..Len(calls) : Wrote(l) /\ calls[l].key = key

C23_Witness ==
    /\ Len(calls) = 2 /\ ConcurrentMisses(1, 2)
    /\ calls[1].name # calls[2].name
    /\ calls[1].done /\ calls[2].done
    /\ 2 \in calls[1].before
    /\ calls[2].saw = "jsonOther" /\ calls[2].end = 0
    /\ calls[1].saw = "json" /\ calls[1].end = 1
    /\ medicineCache[calls[1].key] =
            [data |-> PlainResult("expected"), timestamp |-> 1]

---------------------------------------------------------------------------
(* Cleanup against the other handlers *)

\* C24: a cleanup run deletes only sessions whose lastActivity is more
\* than one hour before the time of the run; a session created or active
\* within the last hour stays.
C24_SweepSparesActive ==
    \A k \in 1..Len(sweepLog) :
        /\ \A id \in DOMAIN sweepLog[k].removed :
                sweepLog[k].time - getTime(sweepLog[k].removed[id]) > SweepInterval
        /\ \A id \in sweepLog[k].before :
                sweepLog[k].time - getTime(sessions[id].createdAt) <= SweepInterval
                    => id \in DOMAIN sweepLog[k].after

C24_Witness ==
    \E k \in 1..Len(sweepLog) :
        /\ sweepLog[k].time = SweepInterval + 1
        /\ sweepLog[k].before = {1, 2}
        /\ DOMAIN sweepLog[k].removed = {2}
        /\ getTime(sessions[1].createdAt) = 0
        /\ getTime(sweepLog[k].after[1]) = 1
        /\ Len(reqs) = 1 /\ reqs[1].op = "send" /\ reqs[1].status = 200

---------------------------------------------------------------------------
(* Nearby centers in the recommendation *)

Answered == serverResp.status = 200

CentersOnlyForDonate ==
    /\ serverResp.recommendation # "Donate" => serverResp.nearbyCenters = <<>>
    /\ serverResp.recommendation = "Donate" => serverResp.nearbyCenters # <<>>

---------------------------------------------------------------------------
(* Donation-centers endpoint *)

\* The request asks for no search: no location text and no latitude.
NoSearchAsked == Falsy(reqQuery.location) /\ reqQuery.lat \in {"absent", "empty"}

\* C26: the endpoint answers with the example centers, labelled as mock
\* data, only when the request asks for no search; a search by text or by
\* coordinates that finds nothing is answered with no centers and total 0.
C26_MockOnlyWithoutSearch ==
    centersResp.status # 0 =>
        /\ centersResp.centers = MOCK_CENTERS => NoSearchAsked
        /\ centersResp.source = "Mock Data (API Limit/Error)"
                <=> centersResp.centers = MOCK_CENTERS
        /\ centersResp.searched /\ centersResp.found = 0 =>
                centersResp.centers = <<>> /\ centersResp.total = 0
        /\ centersResp.total = Len(centersResp.centers)

C26_Witness ==
    /\ centersResp.status = 200
    /\ reqQuery.location = StrField(<<"a">>) /\ reqQuery.lat = "absent"
    /\ centersResp.searched /\ centersResp.found = 0
    /\ centersResp.centers = <<>> /\ centersResp.source = "OpenStreetMap"

---------------------------------------------------------------------------
(* Client assessment against server handler *)

\* The form accepts the medicine: a name, and an expiry date or the "not
\* available" mark.
FormAccepts ==
    /\ FormState(input) /\ input.name
    /\ (HasDate \/ input.expiryNotAvailable)

\* C27: for every medicine state the client form accepts and every
\* evaluation instant, the client assessment and the server handler give
\* the same disposition kind.
C27_ClientServerSameKind ==
    ServerDone /\ ClientDone /\ FormAccepts => ServerKind = ClientKind

---------------------------------------------------------------------------
(* sendMessage against concurrent requests *)

\* Request n is a sendMessage answered with success.
SendSucceeded(n) ==
    reqs[n].op = "send" /\ reqs[n].pc = "done" /\ reqs[n].status = 200

\* The stored messages of session id hold the user message and the bot
\* reply of request n.
StoredExchange(id, n) ==
    /\ \E k \in DOMAIN sessions[id].messages :
            sessions[id].messages[k] = [sender |-> "user", req |-> n]
    /\ \E k \in DOMAIN sessions[id].messages :
            sessions[id].messages[k] = [sender |-> "bot", req |-> n]

\* C28: whenever sendMessage answers with success, the session is in the
\* session map at that moment and its stored messages hold the user message
\* and the bot reply, whatever endChatSession or cleanup ran during the
\* await.
C28_SuccessOnlyForPresentSession ==
    \A n \in DOMAIN reqs :
        SendSucceeded(n) =>
            /\ reqs[n].sessionId \in reqs[n].mapAfter
            /\ StoredExchange(reqs[n].sessionId, n)

\* The messages after the greeting come in pairs: a user message followed
\* at once by the bot reply to it; the last user message may still wait
\* for its reply.
Alternates(messages) ==
    /\ Len(messages) >= 1 /\ messages[1] = Greeting
    /\ \A k \in 2..Len(messages) :
        IF k % 2 = 0
        THEN messages[k].sender = "user"
        ELSE messages[k] = [sender |-> "bot", req |-> messages[k - 1].req]

\* The requests of the user messages that have their reply, in stored order.
Exchanges(messages) ==
    [k \in 1..((Len(messages) - 1) \div 2) |-> messages[2 * k].req]

\* C29: in every session the stored messages are the greeting followed by
\* alternating user and bot messages, each user message followed at once by
\* its reply, and the context accumulates the exchanges in that order, for
\* every interleaving of sendMessage calls on the session.
C29_MessagesAlternate ==
    \A id \in DOMAIN sessions :
        /\ Alternates(sessions[id].messages)
        /\ sessions[id].context = Exchanges(sessions[id].messages)

---------------------------------------------------------------------------
(* analyzeOCRText: expiry against recommendation *)

\* analyzeOCRText resolved with an OCR result: the parsed object or the
\* fallback.
OCRReturned ==
    aiOp = "analyzeOCRText" /\ aiResult.kind \in {"expected", "fallback"}

\* The result carries an expiry date before the day of the analysis.
OCRDateInPast ==
    /\ aiResult.ocr.expiryDate.kind = "date"
    /\ aiResult.ocr.expiryDate.day < now \div TicksPerDay

\* C30: every result of analyzeOCRText is consistent on expiry: one that
\* says isExpired, or carries an expiry date in the past, recommends
\* 'dispose', and one that recommends 'donate' or 'keep' has isExpired
\* false, on the parsed path with or without an expiry date and on the
\* fallback path.
C30_OCRExpiryConsistent ==
    OCRReturned =>
        /\ (aiResult.ocr.isExpired \/ OCRDateInPast
                => aiResult.ocr.recommendation = "dispose")
        /\ (aiResult.ocr.recommendation \in {"donate", "keep"}
                => ~aiResult.ocr.isExpired)

=============================================================================
